---- MODULE Spec2Model ----
(***************************************************************************)
(* State-machine model of the telegram-search message store and of its     *)
(* embedding backfill (embed), message insert (createMessage, the watch    *)
(* handler) and similarity search (findSimilarMessages).                   *)
(*                                                                         *)
(* A nullable value is a sequence of length at most one: None is SQL NULL  *)
(* or JS null/undefined, Some(x) holds x.  A string is the sequence of its *)
(* characters, so "" is <<>> and Some(<<>>) is a present, empty string.    *)
(***************************************************************************)
EXTENDS Integers, Sequences, FiniteSets, TLC

\* ------------------------------------------------------------ bounds
MaxId == 3
MaxChat == 1
MaxRows == 4
MaxBatch == 2
MaxTextRows == 2
MaxRuns == 2
MaxIngestRows == 2
MaxArray == 2
MaxSaved == 1
MaxSearchRows == 3

\* ------------------------------------------------- program constants
DefaultBatchSize == 100
DefaultLimit == 10

None == <<>>
Some(x) == <<x>>

Ids == 1..MaxId
Chats == 0..MaxChat
Keys == Ids \X Chats
Runs == {1, 2}

Min(a, b) == IF a < b THEN a ELSE b

\* ------------------------------------------------------------ strings
IsSpace(c) == c \in {" ", "\t"}

RECURSIVE TrimStart(_)
TrimStart(s) == IF s # <<>> /\ IsSpace(Head(s)) THEN TrimStart(Tail(s)) ELSE s

RECURSIVE TrimEnd(_)
TrimEnd(s) ==
  IF s # <<>> /\ IsSpace(s[Len(s)]) THEN TrimEnd(SubSeq(s, 1, Len(s) - 1)) ELSE s

\* String.prototype.trim
Trim(s) == TrimEnd(TrimStart(s))

\* msg.content && msg.content.trim().length > 0
IsValidMsg(msg) ==
  /\ msg.content # None
  /\ msg.content[1] # <<>>
  /\ Len(Trim(msg.content[1])) > 0

IsBlankContent(c) == ~IsValidMsg([content |-> c])

\* ------------------------------------------------- embedding provider
RECURSIVE Occ(_, _)
Occ(s, c) == IF s = <<>> THEN 0 ELSE (IF Head(s) = c THEN 1 ELSE 0) + Occ(Tail(s), c)

\* the vector a deterministic provider returns for one text
EmbedOf(t) == <<Occ(t, "a"), Occ(t, "b")>>

\* generateEmbeddings(texts): one vector per input text, same order
GenerateEmbeddings(texts) == [i \in 1..Len(texts) |-> EmbedOf(texts[i])]

\* --------------------------------------------------------------- store
\* The messages table: a function from the keys present to their rows.
InScope(k, chatId) == chatId = None \/ chatId[1] = 0 \/ k[2] = chatId[1]

\* conditions = [isNull(embedding)] (+ eq(chatId) when options.chatId is truthy)
Eligible(st, chatId) ==
  {k \in DOMAIN st : st[k].embedding = None /\ InScope(k, chatId)}

\* update(messages).set({embedding}).where(eq(messages.id, id))
UpdateEmbedding(st, id, vec) ==
  [k \in DOMAIN st |-> IF k[1] = id THEN [st[k] EXCEPT !.embedding = Some(vec)] ELSE st[k]]

\* the updates of validBatch[i], i in done, applied in index order
RECURSIVE ApplyUpdates(_, _, _, _, _)
ApplyUpdates(st, valid, embeddings, done, i) ==
  IF i > Len(valid) THEN st
  ELSE ApplyUpdates(IF i \in done THEN UpdateEmbedding(st, valid[i].id, embeddings[i]) ELSE st,
                    valid, embeddings, done, i + 1)

\* the rows an update of validBatch[i], i in done, matches
Touched(st, valid, done) == {k \in DOMAIN st : \E i \in done : valid[i].id = k[1]}

\* every ordering of n distinct elements of S: a LIMIT n select without ORDER BY
Arrangements(S, n) == {s \in [1..n -> S] : \A i, j \in 1..n : i # j => s[i] # s[j]}

VARIABLES store, run, call, saved

vars == <<store, run, call, saved>>

\* ------------------------------------------------------ embed(options)
\* options.batchSize falsy: the options are read from the command line,
\* whose batch size defaults to '100'
BatchSizeOf(options) ==
  IF options.batchSize = 0 THEN DefaultBatchSize ELSE options.batchSize

IdleRun(options) ==
  [pc |-> "idle", options |-> options, batchSize |-> 0, count |-> 0,
   processed |-> 0, failed |-> 0, batch |-> <<>>, validBatch |-> <<>>,
   texts |-> <<>>, embeddings |-> <<>>,
   \* history: what the run has done so far
   runNo |-> 0, event |-> "none", iterations |-> 0,
   start |-> <<>>, written |-> {}, clean |-> TRUE, prev |-> <<>>]

\* while (processed < count)
LoopPc(processed, count) == IF processed < count THEN "loop" ELSE "done"

\* the count query and the early return
Count(r) ==
  /\ run[r].pc = "idle"
  /\ LET chatId == run[r].options.chatId
         cnt == Cardinality(Eligible(store, chatId))
     IN run' = [run EXCEPT ![r] =
          [IdleRun(run[r].options) EXCEPT
             !.pc = IF cnt = 0 THEN "done" ELSE "loop",
             !.batchSize = BatchSizeOf(run[r].options),
             !.count = cnt,
             !.runNo = run[r].runNo + 1,
             !.event = "count",
             !.start = store,
             !.prev = IF run[r].runNo = 0 THEN <<>>
                      ELSE <<[clean |-> run[r].clean]>>]]
  /\ UNCHANGED <<store, call, saved>>

\* a catch that counts the batch as failed and forgets to advance processed
CatchNoProgress(rn, ev) ==
  [rn EXCEPT !.failed = rn.failed + Len(rn.batch),
             !.batch = <<>>, !.validBatch = <<>>, !.texts = <<>>, !.embeddings = <<>>,
             !.event = ev,
             !.clean = FALSE]

\* the catch of the per-batch try
Catch(rn, ev) ==
  [rn EXCEPT !.failed = rn.failed + Len(rn.batch),
             !.processed = rn.processed + Len(rn.batch),
             !.pc = LoopPc(rn.processed + Len(rn.batch), rn.count),
             !.batch = <<>>, !.validBatch = <<>>, !.texts = <<>>, !.embeddings = <<>>,
             !.event = ev,
             !.clean = FALSE]

\* one fetch, and the synchronous code up to the provider call
Fetch(r) ==
  /\ run[r].pc = "loop"
  /\ LET rn == run[r]
         eligible == Eligible(store, rn.options.chatId)
         n == Min(rn.batchSize, Cardinality(eligible))
     IN \E keys \in Arrangements(eligible, n) :
          LET batch == [i \in 1..n |->
                          [id |-> keys[i][1], content |-> store[keys[i]].content,
                           chatId |-> keys[i][2]]]
              valid == SelectSeq(batch, IsValidMsg)
          IN run' = [run EXCEPT ![r] =
               IF n = 0 THEN [rn EXCEPT !.pc = "done", !.event = "break"]
               ELSE IF Len(valid) = 0
               THEN [rn EXCEPT   !.processed = rn.processed + n,
                                 !.failed = rn.failed + n,
                                 !.iterations = rn.iterations + 1,
                                 !.pc = LoopPc(rn.processed + n, rn.count),
                                 !.event = "skipAll"]
               ELSE [rn EXCEPT   !.batch = batch, !.validBatch = valid,
                                 !.texts = [i \in 1..Len(valid) |-> Trim(valid[i].content[1])],
                                 !.iterations = rn.iterations + 1,
                                 !.pc = "embedding",
                                 !.event = "fetch"]]
  /\ UNCHANGED <<store, call, saved>>

\* the select of the batch rejects: the outer catch ends the process
FetchFails(r) ==
  /\ run[r].pc = "loop"
  /\ run' = [run EXCEPT ![r] = [run[r] EXCEPT !.pc = "exit", !.event = "fetchFail",
                                              !.clean = FALSE]]
  /\ UNCHANGED <<store, call, saved>>

ProviderReturns(r) ==
  /\ run[r].pc = "embedding"
  /\ run' = [run EXCEPT ![r] =
       [run[r] EXCEPT !.embeddings = GenerateEmbeddings(run[r].texts),
                      !.pc = "writing", !.event = "provOK"]]
  /\ UNCHANGED <<store, call, saved>>

ProviderThrows(r) ==
  /\ run[r].pc = "embedding"
  /\ run' = [run EXCEPT ![r] = Catch(run[r], "provThrow")]
  /\ UNCHANGED <<store, call, saved>>

\* Promise.all of the row updates resolves
WriteAll(r) ==
  /\ run[r].pc = "writing"
  /\ LET rn == run[r]
         all == 1..Len(rn.validBatch)
         skipped == Len(rn.batch) - Len(rn.validBatch)
     IN /\ store' = ApplyUpdates(store, rn.validBatch, rn.embeddings, all, 1)
        /\ run' = [run EXCEPT ![r] =
             [rn EXCEPT !.processed = rn.processed + Len(rn.batch),
                        !.failed = rn.failed + skipped,
                        !.pc = LoopPc(rn.processed + Len(rn.batch), rn.count),
                        !.written = rn.written \cup Touched(store, rn.validBatch, all),
                        !.batch = <<>>, !.validBatch = <<>>, !.texts = <<>>,
                        !.embeddings = <<>>,
                        !.event = "writeOK"]]
  /\ UNCHANGED <<call, saved>>

\* Promise.all rejects: the updates in done were applied, another one threw
WriteFails(r) ==
  /\ run[r].pc = "writing"
  /\ LET rn == run[r]
         all == 1..Len(rn.validBatch)
     IN \E done \in (SUBSET all) \ {all} :
          /\ store' = ApplyUpdates(store, rn.validBatch, rn.embeddings, done, 1)
          /\ run' = [run EXCEPT ![r] =
               [Catch(rn, "writeFail") EXCEPT
                  !.written = rn.written \cup Touched(store, rn.validBatch, done)]]
  /\ UNCHANGED <<call, saved>>

\* embed is called again with the same options after it returned
Rerun(r) ==
  /\ run[r].pc = "done"
  /\ run[r].runNo < MaxRuns
  /\ run' = [run EXCEPT ![r] = [run[r] EXCEPT !.pc = "idle", !.event = "rerun"]]
  /\ UNCHANGED <<store, call, saved>>

\* ---------------------------------------------- inputs of the backfill
\* content as createMessage stores it: null, or a non-empty string
BaseContents == {None, Some(<<" ">>), Some(<<" ", "a", " ">>)}
StoredContents == BaseContents \cup {Some(<<"b">>)}

NewRow(c) == [content |-> c, embedding |-> None, type |-> "text", createdAt |-> 1]

\* the stores of at most maxRows rows, none embedded yet
NullStores(maxRows, contents) ==
  UNION {[ks -> {NewRow(c) : c \in contents}] :
           ks \in {s \in SUBSET Keys : Cardinality(s) <= maxRows}}

EmbedOptions == [batchSize : 0..MaxBatch, chatId : {None} \cup {Some(c) : c \in Chats}]

NoCall == [op |-> "none", arg |-> <<>>, ret |-> <<>>, error |-> FALSE]

Init ==
  /\ store \in NullStores(MaxRows, BaseContents) \cup NullStores(MaxTextRows, StoredContents)
  /\ \E o \in EmbedOptions : run = [r \in Runs |-> IdleRun(o)]
  /\ call = NoCall
  /\ saved = 0

Next ==
  \/ Count(1)
  \/ Fetch(1)
  \/ FetchFails(1)
  \/ ProviderReturns(1)
  \/ ProviderThrows(1)
  \/ WriteAll(1)
  \/ WriteFails(1)

Spec == Init /\ [][Next]_vars

\* a small store, for the backfill run twice in a row or by two runs at once
InitSmall ==
  /\ store \in NullStores(MaxTextRows, StoredContents)
  /\ \E o \in EmbedOptions : run = [r \in Runs |-> IdleRun(o)]
  /\ call = NoCall
  /\ saved = 0

NextTwice ==
  \/ Count(1)
  \/ Fetch(1)
  \/ FetchFails(1)
  \/ ProviderReturns(1)
  \/ ProviderThrows(1)
  \/ WriteAll(1)
  \/ WriteFails(1)
  \/ Rerun(1)

SpecTwice == InitSmall /\ [][NextTwice]_vars

\* two runs with the same options interleave; nothing fails
NextTwo ==
  \E r \in Runs :
    \/ Count(r)
    \/ Fetch(r)
    \/ ProviderReturns(r)
    \/ WriteAll(r)

SpecTwo == InitSmall /\ [][NextTwo]_vars

\* --------------------------------------------------- createMessage
\* one row of insert(messages).values(...): the column defaults of createMessage
ValueOf(msg) ==
  [id |-> msg.id, chatId |-> msg.chatId,
   row |-> [content |-> IF msg.content = None \/ msg.content[1] = <<>>
                        THEN None ELSE msg.content,
            embedding |-> None,
            type |-> IF msg.type = None THEN "text" ELSE msg.type[1],
            createdAt |-> msg.createdAt]]

Returned(v) ==
  [id |-> v.id, chatId |-> v.chatId, content |-> v.row.content,
   embedding |-> v.row.embedding, type |-> v.row.type, createdAt |-> v.row.createdAt]

\* INSERT ... VALUES values[i..] [ON CONFLICT DO NOTHING] RETURNING *, on the
\* table's unique key (id, chatId); acc is [store, returning, error]
RECURSIVE DbInsert(_, _, _, _)
DbInsert(acc, values, i, onConflict) ==
  IF i > Len(values) \/ acc.error THEN acc
  ELSE LET v == values[i]
           key == <<v.id, v.chatId>>
       IN IF key \in DOMAIN acc.store
          THEN IF onConflict = "nothing"
               THEN DbInsert(acc, values, i + 1, onConflict)
               ELSE IF onConflict = "update"
               THEN DbInsert([acc EXCEPT !.store = [acc.store EXCEPT ![key] = v.row],
                                         !.returning = Append(acc.returning, Returned(v))],
                             values, i + 1, onConflict)
               ELSE [acc EXCEPT !.error = TRUE]
          ELSE DbInsert([store |-> [k \in DOMAIN acc.store \cup {key} |->
                                      IF k = key THEN v.row ELSE acc.store[k]],
                         returning |-> Append(acc.returning, Returned(v)),
                         error |-> FALSE],
                        values, i + 1, onConflict)

\* the statement is atomic: an error leaves the table as it was
InsertResult(st, values, onConflict) ==
  LET res == DbInsert([store |-> st, returning |-> <<>>, error |-> FALSE],
                      values, 1, onConflict)
  IN IF res.error THEN [store |-> st, returning |-> <<>>, error |-> TRUE] ELSE res

\* the insert written as an upsert (onConflictDoUpdate), as updateChat is
CreateMessageResultUpsert(st, messageArray) ==
  InsertResult(st, [i \in 1..Len(messageArray) |-> ValueOf(messageArray[i])], "update")

\* createMessage(messageArray): the new table, the rows returned, the error thrown
CreateMessageResult(st, messageArray) ==
  InsertResult(st, [i \in 1..Len(messageArray) |-> ValueOf(messageArray[i])], "nothing")

\* createMessage called with an array
CreateMessage(data) ==
  /\ LET res == CreateMessageResult(store, data)
     IN /\ Cardinality(DOMAIN res.store) <= MaxIngestRows
        /\ store' = res.store
        /\ call' = [op |-> "createMessage", arg |-> data, ret |-> res.returning,
                    error |-> res.error]
  /\ UNCHANGED <<run, saved>>

\* the watch handler of chat chatId receives message
OnMessage(chatId, message) ==
  IF message.chatId # chatId
  THEN UNCHANGED vars
  ELSE /\ saved < MaxSaved
       /\ LET res == CreateMessageResult(store, <<message>>)
          IN /\ Cardinality(DOMAIN res.store) <= MaxIngestRows
             /\ store' = res.store
             /\ call' = [op |-> "onMessage", arg |-> <<message>>, ret |-> res.returning,
                         error |-> res.error]
             \* count++ is skipped when createMessage throws
             /\ saved' = IF res.error THEN saved ELSE saved + 1
       /\ UNCHANGED run

\* what a finished backfill leaves of a store
Backfilled(st) ==
  [k \in DOMAIN st |->
     IF IsValidMsg(st[k]) THEN [st[k] EXCEPT !.embedding = Some(EmbedOf(Trim(st[k].content[1])))]
     ELSE st[k]]

InContents == {None, Some(<<>>), Some(<<" ", "a", " ">>)}

WatchMessages ==
  [id : Ids, chatId : Chats, type : {None, Some("photo")}, content : InContents,
   createdAt : {1}]

ArrayMessages ==
  [id : Ids, chatId : Chats, type : {None}, content : {Some(<<"b">>)}, createdAt : {2}]

Arrays == UNION {[1..n -> ArrayMessages] : n \in 1..MaxArray}

NoOptions == [batchSize |-> 0, chatId |-> None]

InitIngest ==
  /\ \E s \in NullStores(1, StoredContents) : store \in {s, Backfilled(s)}
  /\ run = [r \in Runs |-> IdleRun(NoOptions)]
  /\ call = NoCall
  /\ saved = 0

NextIngest ==
  \/ \E data \in Arrays : CreateMessage(data)
  \/ \E chatId \in Chats, message \in WatchMessages : OnMessage(chatId, message)

SpecIngest == InitIngest /\ [][NextIngest]_vars

\* ---------------------------------------------- findSimilarMessages
Dot(a, b) == a[1] * b[1] + a[2] * b[2]

\* 1 - (a <=> q) >= 1 - (b <=> q): the cosine of (a, q) is at least that of (b, q)
CosGeq(a, b, q) ==
  LET x == Dot(a, q)
      y == Dot(b, q)
      m == Dot(a, a)
      n == Dot(b, b)
  IN IF x >= 0 /\ y < 0 THEN TRUE
     ELSE IF x < 0 /\ y >= 0 THEN FALSE
     ELSE IF x >= 0 THEN x * x * n >= y * y * m
     ELSE x * x * n <= y * y * m

\* the where conditions: a filter is pushed when its option is truthy
Matches(st, k, o) ==
  /\ (o.chatId # None /\ o.chatId[1] # 0) => k[2] = o.chatId[1]
  /\ o.type # None => st[k].type = o.type[1]
  /\ o.startTime # None => st[k].createdAt > o.startTime[1]
  /\ o.endTime # None => st[k].createdAt < o.endTime[1]
  /\ st[k].embedding # None

\* limit = 10, offset = 0 when the option is undefined
LimitOf(o) == IF o.limit = None THEN DefaultLimit ELSE o.limit[1]
OffsetOf(o) == IF o.offset = None THEN 0 ELSE o.offset[1]

\* ORDER BY similarity DESC: every ordering of ks by descending similarity
Ordered(st, ks, q) ==
  {s \in Arrangements(ks, Cardinality(ks)) :
     \A i, j \in 1..Cardinality(ks) :
       i < j => CosGeq(st[s[i]].embedding[1], st[s[j]].embedding[1], q)}

\* LIMIT limit OFFSET offset
Window(s, limit, offset) == SubSeq(s, offset + 1, Min(Len(s), offset + limit))

Selected(st, k) ==
  [id |-> k[1], chatId |-> k[2], type |-> st[k].type, content |-> st[k].content,
   createdAt |-> st[k].createdAt]

FindSimilarMessages(embedding, options) ==
  /\ call.op = "none"
  /\ LET ks == {k \in DOMAIN store : Matches(store, k, options)}
     IN \E s \in Ordered(store, ks, embedding) :
          LET w == Window(s, LimitOf(options), OffsetOf(options))
          IN call' = [op |-> "findSimilarMessages",
                      arg |-> [embedding |-> embedding, options |-> options],
                      ret |-> [i \in 1..Len(w) |-> Selected(store, w[i])],
                      error |-> FALSE]
  /\ UNCHANGED <<store, run, saved>>

SearchRow(c, embedded, t) ==
  [content |-> Some(c), type |-> t, createdAt |-> 1,
   embedding |-> IF embedded THEN Some(EmbedOf(Trim(c))) ELSE None]

SearchRows ==
  {SearchRow(<<"a">>, TRUE, "text"), SearchRow(<<"a">>, TRUE, "photo"),
   SearchRow(<<"a", "b">>, TRUE, "text"), SearchRow(<<"a">>, FALSE, "text")}

\* stores of at most maxRows rows, a message's time growing with its id
SearchStores(maxRows) ==
  UNION {{[k \in ks |-> [f[k] EXCEPT !.createdAt = k[1]]] : f \in [ks -> SearchRows]} :
           ks \in {s \in SUBSET Keys : Cardinality(s) <= maxRows}}

SearchOptions ==
  [chatId : {None} \cup {Some(c) : c \in Chats},
   type : {None, Some("photo")},
   startTime : {None, Some(1)},
   endTime : {None, Some(MaxId)},
   limit : {None, Some(0), Some(2)},
   offset : {None, Some(1)}]

Queries == {<<1, 0>>, <<0, 1>>}

InitSearch ==
  /\ store \in SearchStores(MaxSearchRows)
  /\ run = [r \in Runs |-> IdleRun(NoOptions)]
  /\ call = NoCall
  /\ saved = 0

NextSearch ==
  \E embedding \in Queries, options \in SearchOptions :
    FindSimilarMessages(embedding, options)

SpecSearch == InitSearch /\ [][NextSearch]_vars

\* ================================================================ claims
CeilDiv(a, b) == (a + b - 1) \div b

KeyOf(m) == <<m.id, m.chatId>>

\* no numeric id is used by two chats
NoSharedIds(st) == \A k1, k2 \in DOMAIN st : k1[1] = k2[1] => k1 = k2

\* the chat scope as the caller supplied it: every chat id, 0 included, scopes
SuppliedScope(k, chatId) == chatId = None \/ k[2] = chatId[1]

\* C1: when the backfill has run to completion without a provider or write
\* failure and is run again, the second run counts zero eligible rows.
C1_SecondRunFindsNothing ==
  (/\ run[1].runNo = 2
   /\ run[1].prev # <<>>
   /\ run[1].prev[1].clean
   /\ NoSharedIds(store))
    => run[1].count = 0

\* C2: when a run returns and nothing failed, every in-scope row that had a
\* null embedding and non-blank content when the run started is embedded.
C2_RunEmbedsAllEligible ==
  (/\ run[1].pc = "done"
   /\ run[1].clean
   /\ NoSharedIds(store))
    => \A k \in DOMAIN run[1].start :
         (/\ SuppliedScope(k, run[1].options.chatId)
          /\ run[1].start[k].embedding = None
          /\ IsValidMsg(run[1].start[k]))
           => store[k].embedding # None

\* C3: a run with count > 0 performs at most ceil(count / batchSize)
\* iterations that fetch a non-empty batch, whatever fails.
C3_IterationBound ==
  run[1].count > 0 =>
    run[1].iterations <= CeilDiv(run[1].count, run[1].batchSize)

\* C4: at every loop boundary processed = failed + the number of rows whose
\* embedding the run has written.
C4_CounterAccounting ==
  (/\ run[1].pc \in {"loop", "done"}
   /\ run[1].runNo > 0
   /\ NoSharedIds(store))
    => run[1].processed = run[1].failed + Cardinality(run[1].written)

\* C5: when generateEmbeddings throws for a batch, processed and failed both
\* grow by the length of the fetched batch, no row changes, and the loop goes
\* on: the next iteration when processed < count, the normal end otherwise.
C5_ProviderFailureHandled ==
  [][\A r \in Runs :
       (run[r].pc = "embedding" /\ run'[r].pc # "writing" /\ run'[r] # run[r]) =>
         /\ run'[r].processed = run[r].processed + Len(run[r].batch)
         /\ run'[r].failed = run[r].failed + Len(run[r].batch)
         /\ store' = store
         /\ run'[r].pc = IF run'[r].processed < run[r].count THEN "loop" ELSE "done"
         /\ run'[r].count = run[r].count
         /\ run'[r].written = run[r].written]_vars

\* a batch of two rows whose provider call threw, the loop going on
C5_Witness ==
  /\ run[1].event = "provThrow"
  /\ run[1].pc = "loop"
  /\ run[1].processed = 2
  /\ run[1].failed = 2
  /\ \A k \in DOMAIN store : store[k].embedding = None

\* C6: a blank row (content null, empty or whitespace only) is never among the
\* texts sent to the provider and never gets an embedding; the texts sent are
\* the trimmed contents of the other rows of the batch, in batch order.
C6_BlankRowsSkipped ==
  /\ run[1].pc = "embedding" =>
       /\ run[1].validBatch = SelectSeq(run[1].batch, LAMBDA m : ~IsBlankContent(m.content))
       /\ Len(run[1].texts) = Len(run[1].validBatch)
       /\ \A i \in 1..Len(run[1].texts) :
            run[1].texts[i] = Trim(run[1].validBatch[i].content[1])
  /\ \A k \in DOMAIN store :
       IsBlankContent(store[k].content) => store[k].embedding = None

\* C7: when two interleaved runs with the same options have both returned and
\* nothing failed, every in-scope row with non-blank content holds the
\* embedding of its own trimmed content and every other row holds none.
C7_ConcurrentRunsHarmless ==
  (/\ \A r \in Runs : run[r].pc = "done"
   /\ NoSharedIds(store))
    => \A k \in DOMAIN store :
         store[k].embedding =
           IF IsValidMsg(store[k]) /\ InScope(k, run[1].options.chatId)
           THEN Some(EmbedOf(Trim(store[k].content[1])))
           ELSE None

\* C8: createMessage raises no error, leaves every stored row as it was,
\* inserts exactly the messages whose key was absent, each with a null
\* embedding, and returns exactly the rows it inserted, once each.
C8_InsertOrSkip ==
  [][LET arr == call'.arg
         ret == call'.ret
         new == DOMAIN store' \ DOMAIN store
     IN /\ ~call'.error
        /\ \A k \in DOMAIN store : k \in DOMAIN store' /\ store'[k] = store[k]
        /\ DOMAIN store' = DOMAIN store \cup {KeyOf(arr[i]) : i \in 1..Len(arr)}
        /\ {KeyOf(ret[i]) : i \in 1..Len(ret)} = new
        /\ Len(ret) = Cardinality(new)
        /\ \A i \in 1..Len(ret) :
             /\ ret[i].embedding = None
             /\ store'[KeyOf(ret[i])].embedding = None]_vars

\* a mixed array: one message inserted and returned, the other one skipped
\* because its key holds a row that is already embedded
C8_Witness ==
  /\ call.op = "createMessage"
  /\ Len(call.arg) = 2
  /\ Len(call.ret) = 1
  /\ ~call.error
  /\ \E i \in 1..2 :
       /\ KeyOf(call.arg[i]) # KeyOf(call.ret[1])
       /\ store[KeyOf(call.arg[i])].embedding # None
       /\ store[KeyOf(call.arg[i])].content # call.arg[i].content

\* the filters of the claim: every supplied option filters, chat id 0 included
ClaimMatches(st, k, o) ==
  /\ o.chatId # None => k[2] = o.chatId[1]
  /\ o.type # None => st[k].type = o.type[1]
  /\ o.startTime # None => st[k].createdAt > o.startTime[1]
  /\ o.endTime # None => st[k].createdAt < o.endTime[1]
  /\ st[k].embedding # None

\* C9: findSimilarMessages returns the rows with a non-null embedding that
\* match every supplied filter, by descending similarity, cut to
\* [offset, offset + limit) with limit 10 by default.
C9_SearchResult ==
  call.op = "findSimilarMessages" =>
    LET o == call.arg.options
        ks == {k \in DOMAIN store : ClaimMatches(store, k, o)}
    IN \E s \in Ordered(store, ks, call.arg.embedding) :
         LET w == Window(s, IF o.limit = None THEN 10 ELSE o.limit[1],
                            IF o.offset = None THEN 0 ELSE o.offset[1])
         IN call.ret = [i \in 1..Len(w) |-> Selected(store, w[i])]

\* C10: a run changes a row only by writing, into a row of its scope whose
\* embedding was null, the vector of that row's own trimmed content.
C10_WriteBackOwnRow ==
  run[1].runNo > 0 =>
    \A k \in DOMAIN store :
      \/ store[k] = run[1].start[k]
      \/ /\ InScope(k, run[1].options.chatId)
         /\ run[1].start[k].embedding = None
         /\ IsValidMsg(store[k])
         /\ store[k] = [run[1].start[k] EXCEPT
                          !.embedding = Some(EmbedOf(Trim(store[k].content[1])))]

====
